---- MODULE Spec2Model ----
(***************************************************************************)
(* Peak matching of two detected event streams (PPG peaks against          *)
(* reference ECG peaks): bsqi.py, Peak_Matching.py, IHR-IPR_Accuracy.py.   *)
(*                                                                         *)
(* Conventions.  Python arrays are sequences; a Python index k is the      *)
(* TLA+ index k+1.  Real numbers are exact rationals <<n, d>> with d > 0   *)
(* in lowest terms; not-a-number is the pair <<0, 0>>.  Floating-point     *)
(* rounding is not modelled.                                               *)
(***************************************************************************)
EXTENDS Integers, Sequences, FiniteSets, TLC

\* ------------------------------------------------------------------ bounds

\* Event positions of the bsqi inputs are drawn from 0..MaxPos.
MaxPos == 3
\* The agreement window agw of bsqi is n/AgwDen seconds, n in -1..MaxAgwNum.
MaxAgwNum == 2
AgwDen == 2
\* Sample rates tried for bsqi.
FsSet == {1, 2}
\* Event positions of the calculate_ptt inputs are drawn from 0..MaxAnchor.
MaxAnchor == 4
\* min_ptt and max_ptt are whole seconds in 0..MaxLag, at one sample per second.
MaxLag == 3
\* Smoothing lengths tried for calculate_ptt (a length of 1 is no filter for
\* lfilter_zi).
SmoothingSet == {2, 3}

\* -------------------------------------------------------------- arithmetic

Abs(x) == IF x < 0 THEN -x ELSE x

Min(a, b) == IF a < b THEN a ELSE b

Max(a, b) == IF a < b THEN b ELSE a

RECURSIVE Gcd(_, _)
Gcd(a, b) == IF b = 0 THEN a ELSE Gcd(b, a % b)

NaN == <<0, 0>>

IsNaN(r) == r[2] = 0

\* The rational n/d in lowest terms with a positive denominator.
Rat(n, d) ==
    IF d = 0 THEN NaN
    ELSE LET g == Gcd(Abs(n), Abs(d))
             s == IF d < 0 THEN -1 ELSE 1
         IN  <<s * (n \div g), s * (d \div g)>>

R(n) == <<n, 1>>

RAdd(a, b) == IF IsNaN(a) \/ IsNaN(b) THEN NaN ELSE Rat(a[1] * b[2] + b[1] * a[2], a[2] * b[2])

RSub(a, b) == IF IsNaN(a) \/ IsNaN(b) THEN NaN ELSE Rat(a[1] * b[2] - b[1] * a[2], a[2] * b[2])

RMul(a, b) == IF IsNaN(a) \/ IsNaN(b) THEN NaN ELSE Rat(a[1] * b[1], a[2] * b[2])

\* a / b for b # 0 (callers decide what a zero divisor does).
RDiv(a, b) == IF IsNaN(a) \/ IsNaN(b) THEN NaN ELSE Rat(a[1] * b[2], a[2] * b[1])

\* Comparisons follow IEEE: any comparison with not-a-number is false.
RLt(a, b) == ~IsNaN(a) /\ ~IsNaN(b) /\ a[1] * b[2] < b[1] * a[2]

RLe(a, b) == ~IsNaN(a) /\ ~IsNaN(b) /\ a[1] * b[2] <= b[1] * a[2]

RGt(a, b) == RLt(b, a)

RGe(a, b) == RLe(b, a)

\* --------------------------------------------------------------- sequences

\* The strictly increasing sequences over the integers lo..hi, the empty one included.
RECURSIVE IncSeqs(_, _)
IncSeqs(lo, hi) ==
    IF lo > hi THEN {<<>>}
    ELSE IncSeqs(lo + 1, hi) \cup {<<lo>> \o s : s \in IncSeqs(lo + 1, hi)}

\* The elements of s at the indices where keep holds, in order (boolean-mask indexing).
RECURSIVE Mask(_, _)
Mask(s, keep) ==
    IF s = <<>> THEN <<>>
    ELSE (IF Head(keep) THEN <<Head(s)>> ELSE <<>>) \o Mask(Tail(s), Tail(keep))

\* The indices (1-based) at which keep holds, in order (np.where(keep)[0]).
Where(keep) == Mask([i \in 1..Len(keep) |-> i], keep)

Range(s) == {s[i] : i \in 1..Len(s)}

\* The elements of a finite set of integers in increasing order.
RECURSIVE SortedSeq(_)
SortedSeq(S) ==
    IF S = {} THEN <<>>
    ELSE LET m == CHOOSE x \in S : \A y \in S : x <= y
         IN  <<m>> \o SortedSeq(S \ {m})

RECURSIVE SumSeq(_)
SumSeq(s) == IF s = <<>> THEN 0 ELSE Head(s) + SumSeq(Tail(s))

\* ------------------------------------------------------------------- state

VARIABLES
    pc,           \* the statement the call under analysis is at
    \* bsqi (bsqi.py)
    refqrs, testqrs, agw_arg, fs, return_dict,   \* the arguments as passed
    agw,          \* the local agw, rescaled in place by line 26
    NB_REF, NB_TEST, tree, Dist, IndMatch, IndMatchInWindow,
    TP, FN, FP, Se, PPV, F1, meanDist,
    \* calculate_ptt (Peak_Matching.py)
    ppg_peaks, ecg_peaks, max_ptt, min_ptt, smoothing_length,
    midpoint, ptt, loop_i,
    \* calculate_windowed_delayed_ppg_ecg_bsqi (Peak_Matching.py)
    len_ppg, window, delayed_ecg_peaks, window_fs, windows, window_stats,
    \* calculate_windowed_IHR_IPR_agreement (IHR-IPR_Accuracy.py); its ptt is the
    \* variable ptt above, there a number of seconds
    ppg_peaks_arg,    \* the array the caller passed, ppg_peaks being rebound by line 80
    start_arg, end_arg, RR, RR_filt, HR_RR, PP, HR_PP,
    HR_RR_continous, HR_PP_continous, resample_2Hz,
    window_2hz, len_ppg_at_2hz,
    ret           \* what the call returned, or the error it raised

bsqiArgs == <<refqrs, testqrs, agw_arg, fs, return_dict>>

bsqiLocals == <<NB_REF, NB_TEST, tree, Dist, IndMatch, IndMatchInWindow, TP, FN, FP, Se, PPV, F1, meanDist>>

pttArgs == <<ppg_peaks, ecg_peaks, fs, max_ptt, min_ptt, smoothing_length>>

pttLocals == <<midpoint, ptt, loop_i>>

\* Everything that is not a variable of bsqi.
matchLocals == <<len_ppg, window, delayed_ecg_peaks, window_fs, windows, window_stats>>

ihrLocals == <<ppg_peaks_arg, start_arg, end_arg, RR, RR_filt, HR_RR, PP, HR_PP, HR_RR_continous,
               HR_PP_continous, resample_2Hz, window_2hz, len_ppg_at_2hz>>

notBsqi == <<ppg_peaks, ecg_peaks, max_ptt, min_ptt, smoothing_length, pttLocals, matchLocals,
             ihrLocals>>

\* Everything that is not a variable of calculate_ptt.
notPtt == <<refqrs, testqrs, agw_arg, return_dict, agw, bsqiLocals, matchLocals, ihrLocals>>

\* Everything that is not a variable of calculate_windowed_delayed_ppg_ecg_bsqi
\* (its ppg_peaks, ecg_peaks, fs, agw and loop index are those declared above).
notMatch == <<refqrs, testqrs, return_dict, agw, bsqiLocals, max_ptt, min_ptt,
              smoothing_length, midpoint, ptt, ihrLocals>>

\* Everything that is not a variable of calculate_windowed_IHR_IPR_agreement.
notIhr == <<refqrs, testqrs, agw_arg, return_dict, agw, bsqiLocals, max_ptt, min_ptt,
            smoothing_length, midpoint, len_ppg, delayed_ecg_peaks, window_fs>>

vars == <<pc, bsqiArgs, agw, bsqiLocals, notBsqi, ret>>

\* ------------------------------------------------------------ bsqi.py: bsqi

\* np.unique(s): the distinct values of s, sorted.
Unique(s) == SortedSeq(Range(s))

\* np.unique(s, return_index=True)[1]: for each distinct value, in sorted order,
\* the index of its first occurrence in s.
UniqueIndex(s) ==
    [k \in 1..Len(Unique(s)) |->
        CHOOSE i \in 1..Len(s) : s[i] = Unique(s)[k] /\ \A j \in 1..(i - 1) : s[j] # Unique(s)[k]]

\* The distance from position t to its nearest element of ref (ref non-empty).
NearestDist(ref, t) ==
    CHOOSE d \in {Abs(t - ref[i]) : i \in 1..Len(ref)} :
        \A i \in 1..Len(ref) : d <= Abs(t - ref[i])

\* tree.query(test): every index array the nearest-neighbour query may return:
\* entry j is the index of an element of ref nearest to test[j].  When two elements
\* of ref are equally near, which one the tree reports is left to the library.
QueryIndex(ref, test) ==
    {im \in [1..Len(test) -> 1..Len(ref)] :
        \A j \in 1..Len(test) : Abs(test[j] - ref[im[j]]) = NearestDist(ref, test[j])}

\* tree.query(test): the distance array.
QueryDist(ref, test) == [j \in 1..Len(test) |-> NearestDist(ref, test[j])]

\* Dist < agw, elementwise (agw already in samples, a rational).
InWindow(dist, tol) == [j \in 1..Len(dist) |-> RLt(R(dist[j]), tol)]

\* The dictionary (or scalar, or error) a call hands back.
Result(kind, tp, fn, fp, se, ppv, f1) ==
    [kind |-> kind, TP |-> tp, FN |-> fn, FP |-> fp, Se |-> se, PPV |-> ppv, F1 |-> f1]

NoResult == Result("none", 0, 0, 0, R(0), R(0), R(0))

ZeroDivisionError == Result("ZeroDivisionError", 0, 0, 0, R(0), R(0), R(0))

\* return {...} if return_dict else the scalar (lines 46-49, 52-55, 57-60).
Return(rd, tp, fn, fp, se, ppv, f1) ==
    IF rd THEN Result("dict", tp, fn, fp, se, ppv, f1)
    ELSE Result("scalar", 0, 0, 0, R(0), R(0), f1)

\* np.mean(Dist[Dist_thres[ind_plop]]) / fs (lines 42-44); taken only when TP > 0.
MeanDist(dist, inWin, tol, rate) ==
    LET ind_plop   == UniqueIndex(inWin)
        Dist_thres == Where(InWindow(dist, tol))
        picked     == [k \in 1..Len(ind_plop) |-> dist[Dist_thres[ind_plop[k]]]]
    IN  RDiv(Rat(SumSeq(picked), Len(picked)), R(rate))

\* The variables of the other functions while bsqi is the call under analysis.
PttIdle ==
    /\ ppg_peaks = <<>> /\ ecg_peaks = <<>>
    /\ max_ptt = R(0) /\ min_ptt = R(0) /\ smoothing_length = 0
    /\ midpoint = R(0) /\ ptt = <<>> /\ loop_i = 0

MatchIdle ==
    /\ len_ppg = 0 /\ window = 0 /\ delayed_ecg_peaks = <<>>
    /\ window_fs = 0 /\ windows = <<>> /\ window_stats = <<>>

IhrIdle ==
    /\ ppg_peaks_arg = <<>> /\ start_arg = 0 /\ end_arg = 0
    /\ RR = <<>> /\ RR_filt = <<>> /\ HR_RR = <<>> /\ PP = <<>> /\ HR_PP = <<>>
    /\ HR_RR_continous = [x |-> <<>>, y |-> <<>>]
    /\ HR_PP_continous = [x |-> <<>>, y |-> <<>>]
    /\ resample_2Hz = <<>> /\ window_2hz = 0 /\ len_ppg_at_2hz = R(0)

BsqiInit ==
    /\ pc = "bsqi:26"
    /\ PttIdle
    /\ MatchIdle
    /\ IhrIdle
    /\ refqrs \in IncSeqs(0, MaxPos)
    /\ testqrs \in IncSeqs(0, MaxPos)
    /\ agw_arg \in {Rat(n, AgwDen) : n \in (-1)..MaxAgwNum}
    /\ agw = agw_arg
    /\ fs \in FsSet
    /\ return_dict \in BOOLEAN
    /\ NB_REF = 0 /\ NB_TEST = 0
    /\ tree = [built |-> FALSE, data |-> <<>>, queries |-> 0]
    /\ Dist = <<>> /\ IndMatch = <<>> /\ IndMatchInWindow = <<>>
    /\ TP = 0 /\ FN = 0 /\ FP = 0
    /\ Se = R(0) /\ PPV = R(0) /\ F1 = R(0) /\ meanDist = R(0)
    /\ ret = NoResult

\* line 26: agw *= fs
ScaleAgw(a, rate) == RMul(a, R(rate))

BsqiScale ==
    /\ pc = "bsqi:26"
    /\ UNCHANGED notBsqi
    /\ agw' = ScaleAgw(agw, fs)
    /\ pc' = "bsqi:27"
    /\ UNCHANGED <<bsqiArgs, bsqiLocals, ret>>

\* Mutation of BothNonEmpty: only the reference is tested for emptiness.
BothNonEmpty_RefOnly(ref, test) == Len(ref) > 0

\* line 27: if len(refqrs) > 0 and len(testqrs) > 0
BothNonEmpty(ref, test) == Len(ref) > 0 /\ Len(test) > 0

\* lines 50-55: an empty input gives all zeros, and no tree.
BsqiEmpty ==
    /\ pc = "bsqi:27"
    /\ UNCHANGED notBsqi
    /\ ~BothNonEmpty(refqrs, testqrs)
    /\ F1' = R(0)
    /\ ret' = Return(return_dict, 0, 0, 0, R(0), R(0), R(0))
    /\ pc' = "done"
    /\ UNCHANGED <<bsqiArgs, agw, NB_REF, NB_TEST, tree, Dist, IndMatch, IndMatchInWindow,
                   TP, FN, FP, Se, PPV, meanDist>>

\* lines 28-31: the counts, and the tree over the reference peaks.
BsqiBuildTree ==
    /\ pc = "bsqi:27"
    /\ UNCHANGED notBsqi
    /\ BothNonEmpty(refqrs, testqrs)
    /\ NB_REF' = Len(refqrs)
    /\ NB_TEST' = Len(testqrs)
    /\ tree' = [built |-> TRUE, data |-> refqrs, queries |-> 0]
    /\ pc' = "bsqi:32"
    /\ UNCHANGED <<bsqiArgs, agw, Dist, IndMatch, IndMatchInWindow, TP, FN, FP, Se, PPV, F1,
                   meanDist, ret>>

\* line 32: Dist, IndMatch = tree.query(testqrs)
BsqiQuery ==
    /\ pc = "bsqi:32"
    /\ UNCHANGED notBsqi
    /\ Dist' = QueryDist(tree.data, testqrs)
    /\ IndMatch' \in QueryIndex(tree.data, testqrs)
    /\ tree' = [tree EXCEPT !.queries = @ + 1]
    /\ pc' = "bsqi:33"
    /\ UNCHANGED <<bsqiArgs, agw, NB_REF, NB_TEST, IndMatchInWindow, TP, FN, FP, Se, PPV, F1,
                   meanDist, ret>>

\* line 33: IndMatchInWindow = IndMatch[Dist < agw]
MatchInWindow(im, dist, tol) == Mask(im, InWindow(dist, tol))

\* Mutation of CountTP: the accepted test elements are counted without np.unique.
CountTP_NoUnique(inWin) == Len(inWin)

\* lines 34-35: TP = len(np.unique(IndMatchInWindow))
CountTP(inWin) == Len(Unique(inWin))

\* lines 33-39: matches inside the window, the counts and the two rates.  TP, FN and
\* FP are Python ints, so a zero divisor raises.
BsqiCount ==
    /\ pc = "bsqi:33"
    /\ UNCHANGED notBsqi
    /\ IndMatchInWindow' = MatchInWindow(IndMatch, Dist, agw)
    /\ TP' = CountTP(IndMatchInWindow')
    /\ FN' = NB_REF - TP'
    /\ FP' = NB_TEST - TP'
    /\ IF TP' + FN' = 0 \/ FP' + TP' = 0
       THEN /\ ret' = ZeroDivisionError
            /\ pc' = "done"
            /\ UNCHANGED <<Se, PPV>>
       ELSE /\ Se' = Rat(TP', TP' + FN')
            /\ PPV' = Rat(TP', FP' + TP')
            /\ pc' = "bsqi:40"
            /\ UNCHANGED ret
    /\ UNCHANGED <<bsqiArgs, agw, NB_REF, NB_TEST, tree, Dist, IndMatch, F1, meanDist>>

\* Mutation of RatesPositive: the guard of line 40 is dropped.
RatesPositive_Unguarded(se, ppv) == TRUE

\* line 40: if (Se+PPV) > 0
RatesPositive(se, ppv) == RGt(RAdd(se, ppv), R(0))

\* Mutation of F1Score: the factor 2 of the harmonic mean is lost.
F1Score_NoDouble(se, ppv) == RDiv(RMul(se, ppv), RAdd(se, ppv))

\* line 41: F1 = 2 * Se * PPV / (Se+PPV)
F1Score(se, ppv) == RDiv(RMul(RMul(R(2), se), ppv), RAdd(se, ppv))

\* lines 40-44, 57-60: F1 and the mean distance of the matches, then the return.
\* Se and PPV are Python floats: dividing by a zero sum raises.
BsqiF1 ==
    /\ pc = "bsqi:40"
    /\ UNCHANGED notBsqi
    /\ RatesPositive(Se, PPV)
    /\ IF RAdd(Se, PPV) = R(0)
       THEN /\ ret' = ZeroDivisionError
            /\ UNCHANGED <<F1, meanDist>>
       ELSE /\ F1' = F1Score(Se, PPV)
            /\ meanDist' = MeanDist(Dist, IndMatchInWindow, agw, fs)
            /\ ret' = Return(return_dict, TP, FN, FP, Se, PPV, F1')
    /\ pc' = "done"
    /\ UNCHANGED <<bsqiArgs, agw, NB_REF, NB_TEST, tree, Dist, IndMatch, IndMatchInWindow,
                   TP, FN, FP, Se, PPV>>

\* lines 45-49: no match at all: the rates are reported as the literal 0.
BsqiNoMatch ==
    /\ pc = "bsqi:40"
    /\ UNCHANGED notBsqi
    /\ ~RatesPositive(Se, PPV)
    /\ ret' = Return(return_dict, TP, FN, FP, R(0), R(0), R(0))
    /\ pc' = "done"
    /\ UNCHANGED <<bsqiArgs, agw, bsqiLocals>>

BsqiNext ==
    \/ BsqiScale
    \/ BsqiEmpty
    \/ BsqiBuildTree
    \/ BsqiQuery
    \/ BsqiCount
    \/ BsqiF1
    \/ BsqiNoMatch

SpecBsqi == BsqiInit /\ [][BsqiNext]_vars

\* ------------------------------------------ Peak_Matching.py: calculate_ptt

\* line 26: midpoint = (max_ptt * fs + min_ptt * fs) / 2
Midpoint(mx, mn, rate) == RDiv(RAdd(RMul(mx, R(rate)), RMul(mn, R(rate))), R(2))

\* Mutation of InitialPtt: line 28 is lost and the array keeps the zeros of line 27.
InitialPtt_Zeros(ecg, mid) == [k \in 1..Len(ecg) |-> R(0)] \o <<>>

\* lines 27-28: ptt = np.zeros_like(ecg_peaks); ptt[:] = midpoint
InitialPtt(ecg, mid) == [k \in 1..Len(ecg) |-> mid] \o <<>>

\* lines 32-38, for the (1-based) index k < len(ecg_peaks): the offset of the first
\* PPG peak strictly between two consecutive ECG peaks, or not-a-number.
RawEstimate(ppg, ecg, k) ==
    LET start == ecg[k]
        end   == ecg[k + 1]
        times == SelectSeq(ppg, LAMBDA p : p > start /\ p < end)
    IN  IF Len(times) > 0 THEN R(times[1] - start) ELSE NaN

\* np.interp(x, xp, fp) for one x, xp a non-empty set of indices of fp: linear
\* between the neighbouring sample points, the end value outside them.
Interp(x, xp, fp) ==
    LET below == {q \in xp : q <= x}
        above == {q \in xp : q >= x}
    IN  IF below = {} THEN fp[CHOOSE q \in xp : \A o \in xp : q <= o]
        ELSE IF above = {} THEN fp[CHOOSE q \in xp : \A o \in xp : q >= o]
        ELSE LET l == CHOOSE q \in below : \A o \in below : q >= o
                 r == CHOOSE q \in above : \A o \in above : q <= o
             IN  IF l = r THEN fp[l]
                 ELSE RAdd(RMul(RDiv(RSub(fp[r], fp[l]), R(r - l)), R(x - l)), fp[l])

\* The indices of y that hold a number (x(~nans) of nan_helper).
NotNans(y) == {k \in 1..Len(y) : ~IsNaN(y[k])}

\* lines 44-45: y[nans] = np.interp(x(nans), x(~nans), y[~nans]); NotNans(y) non-empty.
NanInterp(y) ==
    LET xp == NotNans(y)
    IN  [k \in 1..Len(y) |-> IF k \in xp THEN y[k] ELSE Interp(k, xp, y)] \o <<>>

RECURSIVE RSum(_, _, _)
\* y[a] + ... + y[b], summed by halves.
RSum(y, a, b) ==
    IF a > b THEN R(0)
    ELSE IF a = b THEN y[a]
    ELSE LET mid == (a + b) \div 2 IN RAdd(RSum(y, a, mid), RSum(y, mid + 1, b))

\* np.mean: not-a-number for an empty array.
Mean(y) == IF Len(y) = 0 THEN NaN ELSE RDiv(RSum(y, 1, Len(y)), R(Len(y)))

\* line 47: ptt[(ptt > hi) | (ptt < lo)] = np.mean(ptt[(ptt < hi) & (ptt > lo)])
ReplaceOutOfRange(y, lo, hi) ==
    LET m == Mean(SelectSeq(y, LAMBDA v : RLt(v, hi) /\ RGt(v, lo)))
    IN  [k \in 1..Len(y) |-> IF RGt(y[k], hi) \/ RLt(y[k], lo) THEN m ELSE y[k]] \o <<>>

RECURSIVE LcmDen(_, _, _)
\* The least common denominator of y[a..b].
LcmDen(y, a, b) ==
    IF a > b THEN 1
    ELSE IF a = b THEN y[a][2]
    ELSE LET mid == (a + b) \div 2
             l   == LcmDen(y, a, mid)
             r   == LcmDen(y, mid + 1, b)
         IN  (l * r) \div Gcd(l, r)

\* scipy.signal odd_ext(x, n): x extended at both ends by n samples mirrored about
\* the end values.
OddExt(x, n) ==
    [k \in 1..n |-> 2 * x[1] - x[n + 2 - k]]
        \o x \o [k \in 1..n |-> 2 * x[Len(x)] - x[Len(x) - k]]

RECURSIVE WindowSum(_, _, _)
\* e[m] + e[m-1] + ... over count samples, the samples before the first being e[1]
\* (lfilter started in the steady state of its first input, zi * x0).
WindowSum(e, m, count) ==
    IF count = 0 THEN 0
    ELSE IF count = 1 THEN e[Max(m, 1)]
    ELSE LET half == count \div 2
         IN  WindowSum(e, m, half) + WindowSum(e, m - half, count - half)

\* lfilter(np.ones(L), 1, e, zi=zi*e[0]), i.e. L times the moving average.
BoxFilter(e, L) == [m \in 1..Len(e) |-> WindowSum(e, m, L)] \o <<>>

Reverse(e) == [m \in 1..Len(e) |-> e[Len(e) + 1 - m]] \o <<>>

\* L*L times signal.filtfilt(np.ones(L)/L, 1, x, padlen=L) for integers x with
\* Len(x) > L: odd extension, the filter forwards, then backwards, the pads cut.
FiltFiltBox(x, L) ==
    LET back == Reverse(BoxFilter(Reverse(BoxFilter(OddExt(x, L), L)), L))
    IN  SubSeq(back, L + 1, L + Len(x))

\* int(n/d), truncated towards zero (astype(int)).
Trunc(n, d) == IF n >= 0 THEN n \div d ELSE -((-n) \div d)

\* lines 48-49: the lag series smoothed by filtfilt and truncated to integers
\* (numbers y, Len(y) > L).  The rationals are brought to the common denominator den.
Smooth(y, L) ==
    LET den == LcmDen(y, 1, Len(y))
        x   == [k \in 1..Len(y) |-> y[k][1] * (den \div y[k][2])] \o <<>>
        f   == FiltFiltBox(x, L)
    IN  [k \in 1..Len(y) |-> Trunc(f[k], L * L * den)] \o <<>>

\* The variables of bsqi while another function is the call under analysis.
BsqiIdle ==
    /\ refqrs = <<>> /\ testqrs = <<>> /\ agw_arg = R(0) /\ return_dict = FALSE
    /\ agw = R(0)
    /\ NB_REF = 0 /\ NB_TEST = 0
    /\ tree = [built |-> FALSE, data |-> <<>>, queries |-> 0]
    /\ Dist = <<>> /\ IndMatch = <<>> /\ IndMatchInWindow = <<>>
    /\ TP = 0 /\ FN = 0 /\ FP = 0
    /\ Se = R(0) /\ PPV = R(0) /\ F1 = R(0) /\ meanDist = R(0)

\* An array result, or an error raised (value empty).
Outcome(kind, value) == [kind |-> kind, value |-> value]

PttInit ==
    /\ pc = "ptt:26"
    /\ BsqiIdle
    /\ MatchIdle
    /\ IhrIdle
    /\ ecg_peaks \in IncSeqs(0, MaxAnchor)
    /\ ppg_peaks \in IncSeqs(0, MaxAnchor)
    /\ fs = 1
    /\ min_ptt \in {R(n) : n \in 0..MaxLag}
    /\ max_ptt \in {R(n) : n \in 0..MaxLag}
    /\ RLt(min_ptt, max_ptt)
    /\ smoothing_length \in SmoothingSet
    /\ midpoint = R(0) /\ ptt = <<>> /\ loop_i = 0
    /\ ret = Outcome("none", <<>>)

\* lines 26-28: the array starts at the midpoint of the accepted range.
PttStart ==
    /\ pc = "ptt:26"
    /\ midpoint' = Midpoint(max_ptt, min_ptt, fs)
    /\ ptt' = InitialPtt(ecg_peaks, midpoint')
    /\ loop_i' = 0
    /\ pc' = "ptt:30"
    /\ UNCHANGED <<pttArgs, ret, notPtt>>

\* lines 30-38: one iteration of the loop over the consecutive pairs of ECG peaks
\* (loop_i counts the iterations done; no statement of the try block can raise).
PttLoop ==
    /\ pc = "ptt:30"
    /\ loop_i < Len(ecg_peaks) - 1
    /\ ptt' = [ptt EXCEPT ![loop_i + 1] = RawEstimate(ppg_peaks, ecg_peaks, loop_i + 1)]
    /\ loop_i' = loop_i + 1
    /\ UNCHANGED <<pc, midpoint, pttArgs, ret, notPtt>>

\* lines 44-45: the missing estimates are interpolated over the index.  np.interp
\* raises on an empty array of sample points.
PttInterp ==
    /\ pc = "ptt:30"
    /\ loop_i >= Len(ecg_peaks) - 1
    /\ IF NotNans(ptt) = {}
       THEN /\ ret' = Outcome("ValueError", <<>>)
            /\ pc' = "done"
            /\ UNCHANGED ptt
       ELSE /\ ptt' = NanInterp(ptt)
            /\ pc' = "ptt:47"
            /\ UNCHANGED ret
    /\ UNCHANGED <<midpoint, loop_i, pttArgs, notPtt>>

\* line 47: the estimates outside [min_ptt*fs, max_ptt*fs] become the mean of those
\* strictly inside.
PttReplace ==
    /\ pc = "ptt:47"
    /\ ptt' = ReplaceOutOfRange(ptt, RMul(min_ptt, R(fs)), RMul(max_ptt, R(fs)))
    /\ pc' = "ptt:48"
    /\ UNCHANGED <<midpoint, loop_i, pttArgs, ret, notPtt>>

\* filtfilt's _validate_pad: the input must be longer than padlen.
LongEnough(y, padlen) == Len(y) > padlen

\* lines 48-51: smoothing, truncation to int, return.  filtfilt raises on an input
\* no longer than padlen; a not-a-number left in the series would spread through
\* the filter, and its cast to int has no defined value.
PttSmooth ==
    /\ pc = "ptt:48"
    /\ IF ~LongEnough(ptt, smoothing_length)
       THEN /\ ret' = Outcome("ValueError", <<>>)
            /\ UNCHANGED ptt
       ELSE IF NotNans(ptt) # DOMAIN ptt
       THEN /\ ret' = Outcome("undefined", <<>>)
            /\ UNCHANGED ptt
       ELSE /\ ptt' = Smooth(ptt, smoothing_length)
            /\ ret' = Outcome("array", ptt')
    /\ pc' = "done"
    /\ UNCHANGED <<midpoint, loop_i, pttArgs, notPtt>>

PttNext ==
    \/ PttStart
    \/ PttLoop
    \/ PttInterp
    \/ PttReplace
    \/ PttSmooth

SpecPtt == PttInit /\ [][PttNext]_vars

\* ------------------------------------- calls of bsqi and calculate_ptt

\* tree.query, built one test element at a time: the index arrays for test[1..j].
RECURSIVE QueryIndexUpTo(_, _, _)
QueryIndexUpTo(ref, test, j) ==
    IF j = 0 THEN {<<>>}
    ELSE {im \o <<n>> :
            im \in QueryIndexUpTo(ref, test, j - 1),
            n \in {n \in 1..Len(ref) : Abs(test[j] - ref[n]) = NearestDist(ref, test[j])}}

\* bsqi(ref, test, agw=a, fs=rate, return_dict=True) as one call, im being the index
\* array its query returns (lines 26-58).
BsqiDict(ref, test, a, rate, im) ==
    IF ~BothNonEmpty(ref, test) THEN Return(TRUE, 0, 0, 0, R(0), R(0), R(0))
    ELSE LET inWin == MatchInWindow(im, QueryDist(ref, test), ScaleAgw(a, rate))
             tp    == CountTP(inWin)
             fn    == Len(ref) - tp
             fp    == Len(test) - tp
             se    == Rat(tp, tp + fn)
             ppv   == Rat(tp, fp + tp)
         IN  IF RatesPositive(se, ppv)
             THEN Return(TRUE, tp, fn, fp, se, ppv, F1Score(se, ppv))
             ELSE Return(TRUE, tp, fn, fp, R(0), R(0), R(0))

\* calculate_ptt(ppg, ecg, fs=rate, max_ptt=mx, min_ptt=mn, smoothing_length=L)
\* as one call (lines 26-51).
CalculatePtt(ppg, ecg, rate, mx, mn, L) ==
    LET start == InitialPtt(ecg, Midpoint(mx, mn, rate))
        raw   == [k \in 1..Len(ecg) |->
                     IF k < Len(ecg) THEN RawEstimate(ppg, ecg, k) ELSE start[k]] \o <<>>
    IN  IF NotNans(raw) = {} THEN Outcome("ValueError", <<>>)
        ELSE LET kept == ReplaceOutOfRange(NanInterp(raw), RMul(mn, R(rate)), RMul(mx, R(rate)))
             IN  IF ~LongEnough(kept, L) THEN Outcome("ValueError", <<>>)
                 ELSE IF NotNans(kept) # DOMAIN kept THEN Outcome("undefined", <<>>)
                 ELSE Outcome("array", Smooth(kept, L))

\* The defaults of calculate_ptt (line 15) and of calculate_delayed_ecg (line 54).
DefaultFs == 256

DefaultMaxPtt == Rat(54, 100)

DefaultMinPtt == Rat(20, 100)

DefaultSmoothingLength == 300

\* line 62: ecg_peaks + calculate_ptt(ppg_peaks, ecg_peaks, fs=fs)
CalculateDelayedEcg(ppg, ecg, rate) ==
    LET lag == CalculatePtt(ppg, ecg, rate, DefaultMaxPtt, DefaultMinPtt, DefaultSmoothingLength)
    IN  IF lag.kind = "array"
        THEN Outcome("array", [k \in 1..Len(ecg) |-> ecg[k] + lag.value[k]] \o <<>>)
        ELSE lag

\* ------------- Peak_Matching.py: calculate_windowed_delayed_ppg_ecg_bsqi

\* N events, the first at e0, one every P samples.
Periodic(e0, P, N) == [k \in 1..N |-> e0 + (k - 1) * P] \o <<>>

\* ECG inputs: none, too few for the smoothing filter, and one more than its
\* pad length (two beats a second at 256 Hz).
MatchEcgInputs == {<<>>, Periodic(0, 128, 3), Periodic(0, 128, DefaultSmoothingLength + 1)}

\* PPG inputs: none, and a pulse 60, 80 or 100 samples after each beat, with every
\* fifth pulse missed by the detector and a last pulse beyond the last beat.
MatchPpgInputs ==
    {<<>>,
     SelectSeq([k \in 1..(DefaultSmoothingLength + 1) |-> 60 + (k - 1) * 128 + (k % 3) * 20] \o <<>>,
               LAMBDA p : (p \div 128) % 5 # 2)}

\* None, as the value of len_ppg (its default).
None == -1

\* Signal lengths tried: a multiple of the window length, or not.
LenPpgInputs == {None, 0, 300, 512, 768}

\* Window lengths tried, in seconds.
WindowInputs == {1, 2}

MatchInit ==
    /\ pc = "match:76"
    /\ refqrs = <<>> /\ testqrs = <<>> /\ return_dict = FALSE /\ agw = R(0)
    /\ NB_REF = 0 /\ NB_TEST = 0
    /\ tree = [built |-> FALSE, data |-> <<>>, queries |-> 0]
    /\ Dist = <<>> /\ IndMatch = <<>> /\ IndMatchInWindow = <<>>
    /\ TP = 0 /\ FN = 0 /\ FP = 0
    /\ Se = R(0) /\ PPV = R(0) /\ F1 = R(0) /\ meanDist = R(0)
    /\ max_ptt = R(0) /\ min_ptt = R(0) /\ smoothing_length = 0
    /\ midpoint = R(0) /\ ptt = <<>> /\ loop_i = 0
    /\ IhrIdle
    /\ ecg_peaks \in MatchEcgInputs
    /\ ppg_peaks \in MatchPpgInputs
    /\ len_ppg \in LenPpgInputs
    /\ fs = DefaultFs
    /\ window \in WindowInputs
    /\ agw_arg = Rat(15, 100)
    /\ delayed_ecg_peaks = <<>> /\ window_fs = 0 /\ windows = <<>> /\ window_stats = <<>>
    /\ ret = Outcome("none", <<>>)

\* lines 76-77: the PPG peaks strictly between the first and the last ECG peak.
\* Indexing an empty ecg_peaks raises.
MatchLimit ==
    /\ pc = "match:76"
    /\ IF Len(ecg_peaks) = 0
       THEN /\ ret' = Outcome("IndexError", <<>>)
            /\ pc' = "done"
            /\ UNCHANGED ppg_peaks
       ELSE /\ ppg_peaks' =
                SelectSeq(SelectSeq(ppg_peaks, LAMBDA p : p < ecg_peaks[Len(ecg_peaks)]),
                          LAMBDA p : p > ecg_peaks[1])
            /\ pc' = "match:80"
            /\ UNCHANGED ret
    /\ UNCHANGED <<ecg_peaks, fs, agw_arg, loop_i, matchLocals, notMatch>>

\* line 80: delayed_ecg_peaks = calculate_delayed_ecg(ppg_peaks, ecg_peaks); the
\* sample rate is not passed on, so the lag is estimated at the default rate.
MatchDelay ==
    /\ pc = "match:80"
    /\ LET delayed == CalculateDelayedEcg(ppg_peaks, ecg_peaks, DefaultFs)
       IN  IF delayed.kind = "array"
           THEN /\ delayed_ecg_peaks' = delayed.value
                /\ pc' = "match:83"
                /\ UNCHANGED ret
           ELSE /\ ret' = delayed
                /\ pc' = "done"
                /\ UNCHANGED delayed_ecg_peaks
    /\ UNCHANGED <<ppg_peaks, ecg_peaks, fs, agw_arg, loop_i, len_ppg, window, window_fs,
                   windows, window_stats, notMatch>>

\* np.arange(0, stop, step) for integers, step > 0: 0, step, ... below stop.
Arange(stop, step) ==
    [k \in 1..(IF stop <= 0 THEN 0 ELSE (stop + step - 1) \div step) |-> (k - 1) * step] \o <<>>

\* lines 83-85: the window starts.  np.arange rejects None.
MatchWindows ==
    /\ pc = "match:83"
    /\ window_fs' = fs * window
    /\ IF len_ppg = None
       THEN /\ ret' = Outcome("TypeError", <<>>)
            /\ pc' = "done"
            /\ UNCHANGED <<windows, window_stats, loop_i>>
       ELSE /\ windows' = Arange(len_ppg, window_fs')
            /\ window_stats' = <<>>
            /\ loop_i' = 0
            /\ pc' = "match:87"
            /\ UNCHANGED ret
    /\ UNCHANGED <<ppg_peaks, ecg_peaks, fs, agw_arg, len_ppg, window, delayed_ecg_peaks,
                   notMatch>>

\* peaks[(peaks >= lo) * (peaks < hi)]
InWindowPeaks(peaks, lo, hi) == SelectSeq(peaks, LAMBDA p : p >= lo /\ p < hi)

\* line 87: for i in range(windows.shape[0] - 1)
LoopCount(w) == Len(w) - 1

\* {'Epoch': i, **stats}
Row(epoch, stats) ==
    [Epoch |-> epoch, TP |-> stats.TP, FN |-> stats.FN, FP |-> stats.FP,
     Se |-> stats.Se, PPV |-> stats.PPV, F1 |-> stats.F1]

\* lines 87-90: one window: its peaks of both streams, bsqi on them, the row appended.
MatchRow ==
    /\ pc = "match:87"
    /\ loop_i < LoopCount(windows)
    /\ LET window_ppg_peaks == InWindowPeaks(ppg_peaks, window_fs * loop_i, window_fs * (loop_i + 1))
           window_delayed_ecg_peaks ==
               InWindowPeaks(delayed_ecg_peaks, window_fs * loop_i, window_fs * (loop_i + 1))
       IN  \E im \in (IF BothNonEmpty(window_delayed_ecg_peaks, window_ppg_peaks)
                      THEN QueryIndexUpTo(window_delayed_ecg_peaks, window_ppg_peaks,
                                          Len(window_ppg_peaks))
                      ELSE {<<>>}) :
               window_stats' =
                   Append(window_stats,
                          Row(loop_i, BsqiDict(window_delayed_ecg_peaks, window_ppg_peaks,
                                               agw_arg, fs, im)))
    /\ loop_i' = loop_i + 1
    /\ UNCHANGED <<pc, ret, ppg_peaks, ecg_peaks, fs, agw_arg, len_ppg, window,
                   delayed_ecg_peaks, window_fs, windows, notMatch>>

\* line 92: return window_stats
MatchReturn ==
    /\ pc = "match:87"
    /\ loop_i >= LoopCount(windows)
    /\ ret' = Outcome("table", window_stats)
    /\ pc' = "done"
    /\ UNCHANGED <<ppg_peaks, ecg_peaks, fs, agw_arg, loop_i, matchLocals, notMatch>>

MatchNext ==
    \/ MatchLimit
    \/ MatchDelay
    \/ MatchWindows
    \/ MatchRow
    \/ MatchReturn

SpecMatch == MatchInit /\ [][MatchNext]_vars

\* ------------------------------------------------- IHR-IPR_Accuracy.py

\* line 11: np.append(points[1:] - points[0:-1], np.nan)
CalculateIntervalsForwards(points) ==
    [k \in 1..Max(Len(points), 1) |->
        IF k < Len(points) THEN R(points[k + 1] - points[k]) ELSE NaN] \o <<>>

\* line 25: b_fir = 1/(2*win_samples) * [1, ..., 1, 0, 1, ..., 1]
BFir(win_samples) ==
    [k \in 1..(2 * win_samples + 1) |->
        IF k = win_samples + 1 THEN R(0) ELSE Rat(1, 2 * win_samples)] \o <<>>

\* scipy.signal odd_ext(x, n) on numbers that may be not-a-number.
OddExtR(x, n) ==
    [k \in 1..n |-> RSub(RMul(R(2), x[1]), x[n + 2 - k])]
        \o x \o [k \in 1..n |-> RSub(RMul(R(2), x[Len(x)]), x[Len(x) - k])]

RECURSIVE FirSum(_, _, _, _)
\* b[1]*e[m] + ... + b[k]*e[m-k+1], the samples before the first being e[1] (lfilter
\* started at zi * x0).  A not-a-number under any tap, the zero tap included, makes
\* the sum not-a-number.
FirSum(b, e, m, k) ==
    IF k = 0 THEN R(0)
    ELSE RAdd(FirSum(b, e, m, k - 1), RMul(b[k], e[Max(m - k + 1, 1)]))

\* lfilter(b, 1, e, zi=zi*e[0])
LFilter(b, e) == [m \in 1..Len(e) |-> FirSum(b, e, m, Len(b))] \o <<>>

\* filtfilt's default padlen, 3 * max(len(a), len(b)) with a = 1.
PadLen(b) == 3 * Len(b)

\* signal.filtfilt(b, 1, x) for Len(x) > PadLen(b).
FiltFilt(b, x) ==
    LET back == Reverse(LFilter(b, Reverse(LFilter(b, OddExtR(x, PadLen(b))))))
    IN  SubSeq(back, PadLen(b) + 1, PadLen(b) + Len(x))

\* lines 27-29: the intervals within percent of their moving average, the others
\* not-a-number.
PointsFiltered(ibi, points_moving_average, percent) ==
    [k \in 1..Len(ibi) |->
        IF /\ RLt(ibi[k], RMul(Rat(100 + percent, 100), points_moving_average[k]))
           /\ RGt(ibi[k], RMul(Rat(100 - percent, 100), points_moving_average[k]))
        THEN ibi[k] ELSE NaN] \o <<>>

\* lines 16-32: moving_average_filter as one call.  filtfilt raises on an input no
\* longer than its pad length, np.interp on an empty set of sample points.
MovingAverageFilter(ibi, win_samples, percent) ==
    LET b_fir == BFir(win_samples)
    IN  IF ~LongEnough(ibi, PadLen(b_fir)) THEN Outcome("ValueError", <<>>)
        ELSE LET points_filtered == PointsFiltered(ibi, FiltFilt(b_fir, ibi), percent)
             IN  IF NotNans(points_filtered) = {} THEN Outcome("ValueError", <<>>)
                 ELSE Outcome("array", NanInterp(points_filtered))

\* lines 34-44: the Python index found, or -1.
FindClosestSmallerValue(find_value, list_of_values) ==
    LET found == {i \in 0..(Len(list_of_values) - 2) : list_of_values[i + 1] < find_value}
    IN  IF found = {} THEN -1 ELSE CHOOSE i \in found : \A j \in found : i >= j

\* lines 46-56: the Python index found, or -1.
FindClosestBiggerValue(value, list_of_values) ==
    LET found == {i \in 0..(Len(list_of_values) - 2) : list_of_values[i + 1] > value}
    IN  IF found = {} THEN -1 ELSE CHOOSE i \in found : \A j \in found : i <= j

\* s[a:b] for Python indices a and b: a negative index counts from the end, and
\* both are clipped to the array.
PySlice(s, a, b) ==
    LET lo == IF a < 0 THEN Max(a + Len(s), 0) ELSE Min(a, Len(s))
        hi == IF b < 0 THEN Max(b + Len(s), 0) ELSE Min(b, Len(s))
    IN  SubSeq(s, lo + 1, hi)

\* The least integer not below n/d, d > 0.
Ceil(r) == -((-r[1]) \div r[2])

\* np.arange(start, stop, step), step > 0.
ArangeR(start, stop, step) ==
    [k \in 1..Max(Ceil(RDiv(RSub(stop, start), step)), 0) |->
        RAdd(start, RMul(R(k - 1), step))] \o <<>>

\* 60 / y, elementwise.
RatePerMinute(y) == [k \in 1..Len(y) |-> RDiv(R(60), y[k])] \o <<>>

\* interpolate.interp1d(x, y): the interpolant, or the error of its constructor (x
\* and y of different lengths).
Interp1d(x, y) ==
    IF Len(x) # Len(y) THEN Outcome("ValueError", <<>>)
    ELSE Outcome("function", [x |-> x, y |-> y])

\* The interpolant f at t inside its domain, two points or more: linear between
\* the neighbouring points.  Where a neighbour is not-a-number the value is
\* not-a-number, except that a t exactly on a point takes that point's value in
\* the library builds that interpolate with np.interp's exact-hit shortcut (exact).
LinearAt(f, t, exact) ==
    LET n    == Len(f.x)
        at   == {j \in 1..n : R(f.x[j]) = t}
        left == {j \in 1..(n - 1) : RLe(R(f.x[j]), t)}
        lo   == CHOOSE j \in left : \A o \in left : j >= o
    IN  IF ~IsNaN(f.y[lo]) /\ ~IsNaN(f.y[lo + 1])
        THEN RAdd(RMul(RDiv(RSub(f.y[lo + 1], f.y[lo]), R(f.x[lo + 1] - f.x[lo])),
                       RSub(t, R(f.x[lo]))),
                  f.y[lo])
        ELSE IF exact /\ at # {} THEN f.y[CHOOSE j \in at : TRUE]
        ELSE NaN

\* f(x_new): a value outside the domain raises (bounds_error).
Evaluate(f, x_new, exact) ==
    IF \E k \in 1..Len(x_new) :
           RLt(x_new[k], R(f.x[1])) \/ RGt(x_new[k], R(f.x[Len(f.x)]))
    THEN Outcome("ValueError", <<>>)
    ELSE Outcome("array", [k \in 1..Len(x_new) |-> LinearAt(f, x_new[k], exact)] \o <<>>)

\* lines 112-116: the test rate is within k of the reference rate, or the reference
\* rate is not-a-number.
Agrees(pp, rr, k) ==
    (RLt(pp, RAdd(rr, R(k))) /\ RGe(pp, RSub(rr, R(k)))) \/ IsNaN(rr)

\* np.sum(...) / len(window_HR_RR); 0/0 is not-a-number.
Agreement(window_HR_PP, window_HR_RR, k) ==
    Rat(Cardinality({j \in 1..Len(window_HR_RR) : Agrees(window_HR_PP[j], window_HR_RR[j], k)}),
        Len(window_HR_RR))

\* The tolerance levels of lines 112-116, in beats per minute.
Levels == 1..5

\* The constants of the call at line 84.
WinSamples == 10

Percent == 50

\* The default of ptt (line 58).
DefaultPtt == Rat(45, 100)

\* ECG inputs: none; too few beats for the filter; 64 beats six samples apart from
\* sample 0 or from sample 12; and 64 beats with one beat missed.
IhrEcgInputs ==
    {<<>>, Periodic(0, 6, 3), Periodic(0, 6, 64), Periodic(12, 6, 64),
     [k \in 1..64 |-> 6 * (k - 1) + (IF k > 30 THEN 6 ELSE 0)] \o <<>>}

\* PPG inputs: none; every sample 0..7; pulses five or six samples apart; pulses
\* from the first beat of the later ECG on; pulses all before it, or with only the
\* last after it; pulses running past the last beat; pulses all after it.
IhrPpgInputs ==
    {<<>>, Periodic(0, 1, 8), Periodic(0, 5, 9), Periodic(20, 6, 5), Periodic(12, 6, 6),
     Periodic(13, 6, 6), <<0, 4, 8>>, <<0, 5, 20>>, Periodic(360, 6, 8), Periodic(400, 5, 3)}

\* Sample rates and window lengths (seconds) tried.
IhrFsInputs == {2, 4}

IhrWindowInputs == {1, 2}

IhrInit ==
    /\ pc = "ihr:71"
    /\ refqrs = <<>> /\ testqrs = <<>> /\ agw_arg = R(0) /\ return_dict = FALSE /\ agw = R(0)
    /\ NB_REF = 0 /\ NB_TEST = 0
    /\ tree = [built |-> FALSE, data |-> <<>>, queries |-> 0]
    /\ Dist = <<>> /\ IndMatch = <<>> /\ IndMatchInWindow = <<>>
    /\ TP = 0 /\ FN = 0 /\ FP = 0
    /\ Se = R(0) /\ PPV = R(0) /\ F1 = R(0) /\ meanDist = R(0)
    /\ max_ptt = R(0) /\ min_ptt = R(0) /\ smoothing_length = 0 /\ midpoint = R(0)
    /\ len_ppg = 0 /\ delayed_ecg_peaks = <<>> /\ window_fs = 0
    /\ ecg_peaks \in IhrEcgInputs
    /\ ppg_peaks \in IhrPpgInputs
    /\ ppg_peaks_arg = ppg_peaks
    /\ fs \in IhrFsInputs
    /\ window \in IhrWindowInputs
    /\ ptt = DefaultPtt
    /\ start_arg = 0 /\ end_arg = 0
    /\ RR = <<>> /\ RR_filt = <<>> /\ HR_RR = <<>> /\ PP = <<>> /\ HR_PP = <<>>
    /\ HR_RR_continous = [x |-> <<>>, y |-> <<>>]
    /\ HR_PP_continous = [x |-> <<>>, y |-> <<>>]
    /\ resample_2Hz = <<>> /\ window_2hz = 0 /\ len_ppg_at_2hz = R(0)
    /\ loop_i = 0 /\ windows = <<>> /\ window_stats = <<>>
    /\ ret = Outcome("none", <<>>)

\* line 71: ecg_peaks = ecg_peaks + int(ptt * fs)
IhrShift ==
    /\ pc = "ihr:71"
    /\ LET shift == RMul(ptt, R(fs))
       IN  ecg_peaks' = [k \in 1..Len(ecg_peaks) |-> ecg_peaks[k] + Trunc(shift[1], shift[2])] \o <<>>
    /\ pc' = "ihr:74"
    /\ UNCHANGED <<ret, ppg_peaks, fs, window, ptt, loop_i, windows, window_stats, ihrLocals, notIhr>>

\* lines 74-80: the PPG peaks limited to the range of the ECG peaks.  end_arg starts
\* as the position of the last PPG peak.  Indexing an empty array raises.
IhrLimit ==
    /\ pc = "ihr:74"
    /\ IF Len(ppg_peaks) = 0 \/ Len(ecg_peaks) = 0
       THEN /\ ret' = Outcome("IndexError", <<>>)
            /\ pc' = "done"
            /\ UNCHANGED <<start_arg, end_arg, ppg_peaks>>
       ELSE /\ end_arg' =
                IF ppg_peaks[Len(ppg_peaks)] > ecg_peaks[Len(ecg_peaks)]
                THEN FindClosestSmallerValue(ecg_peaks[Len(ecg_peaks)], ppg_peaks) + 1
                ELSE ppg_peaks[Len(ppg_peaks)]
            /\ start_arg' =
                IF ppg_peaks[1] < ecg_peaks[1]
                THEN FindClosestBiggerValue(ecg_peaks[1], ppg_peaks)
                ELSE 0
            /\ ppg_peaks' = PySlice(ppg_peaks, start_arg', end_arg')
            /\ pc' = "ihr:83"
            /\ UNCHANGED ret
    /\ UNCHANGED <<ecg_peaks, fs, window, ptt, loop_i, windows, window_stats, ppg_peaks_arg,
                   RR, RR_filt, HR_RR, PP, HR_PP, HR_RR_continous, HR_PP_continous,
                   resample_2Hz, window_2hz, len_ppg_at_2hz, notIhr>>

\* lines 83-86: the RR intervals in seconds, filtered, as a rate per minute.
IhrReference ==
    /\ pc = "ihr:83"
    /\ RR' = [k \in 1..Max(Len(ecg_peaks), 1) |->
                 RDiv(CalculateIntervalsForwards(ecg_peaks)[k], R(fs))] \o <<>>
    /\ \E filtered \in {MovingAverageFilter(RR', WinSamples, Percent)} :
           IF filtered.kind = "array"
           THEN /\ RR_filt' = filtered.value
                /\ HR_RR' = RatePerMinute(filtered.value)
                /\ pc' = "ihr:89"
                /\ UNCHANGED ret
           ELSE /\ ret' = filtered
                /\ pc' = "done"
                /\ UNCHANGED <<RR_filt, HR_RR>>
    /\ UNCHANGED <<ppg_peaks, ecg_peaks, fs, window, ptt, loop_i, windows, window_stats,
                   ppg_peaks_arg, start_arg, end_arg, PP, HR_PP, HR_RR_continous,
                   HR_PP_continous, resample_2Hz, window_2hz, len_ppg_at_2hz, notIhr>>

\* lines 89-90: the PP intervals in seconds, as a rate per minute.
IhrTest ==
    /\ pc = "ihr:89"
    /\ PP' = [k \in 1..Max(Len(ppg_peaks), 1) |->
                 RDiv(CalculateIntervalsForwards(ppg_peaks)[k], R(fs))] \o <<>>
    /\ HR_PP' = RatePerMinute(PP')
    /\ pc' = "ihr:93"
    /\ UNCHANGED <<ret, ppg_peaks, ecg_peaks, fs, window, ptt, loop_i, windows, window_stats,
                   ppg_peaks_arg, start_arg, end_arg, RR, RR_filt, HR_RR, HR_RR_continous,
                   HR_PP_continous, resample_2Hz, window_2hz, len_ppg_at_2hz, notIhr>>

\* lines 93-94: the two interpolants.  Whether interp1d accepts a single point
\* depends on the library version (at least 2 entries in older ones, 1 in newer).
IhrFunctions ==
    /\ pc = "ihr:93"
    /\ LET rr == Interp1d(ecg_peaks, HR_RR)
           pp == Interp1d(ppg_peaks, HR_PP)
       IN  \E single_point_ok \in BOOLEAN :
               IF rr.kind = "function" /\ pp.kind = "function"
                  /\ (Len(ppg_peaks) # 1 \/ single_point_ok)
               THEN /\ HR_RR_continous' = rr.value
                    /\ HR_PP_continous' = pp.value
                    /\ pc' = "ihr:97"
                    /\ UNCHANGED ret
               ELSE /\ ret' = Outcome("ValueError", <<>>)
                    /\ pc' = "done"
                    /\ UNCHANGED <<HR_RR_continous, HR_PP_continous>>
    /\ UNCHANGED <<ppg_peaks, ecg_peaks, fs, window, ptt, loop_i, windows, window_stats,
                   ppg_peaks_arg, start_arg, end_arg, RR, RR_filt, HR_RR, PP, HR_PP,
                   resample_2Hz, window_2hz, len_ppg_at_2hz, notIhr>>

\* lines 97-99: both rates resampled on the grid that starts at the first kept PPG
\* peak and advances by fs/2 samples.
IhrResample ==
    /\ pc = "ihr:97"
    /\ resample_2Hz' = ArangeR(R(ppg_peaks[1]), R(ppg_peaks[Len(ppg_peaks)]), Rat(fs, 2))
    /\ \E exact \in BOOLEAN :
       \E rr \in {Evaluate(HR_RR_continous, resample_2Hz', exact)} :
       \E pp \in {Evaluate(HR_PP_continous, resample_2Hz', exact)} :
           IF rr.kind = "array" /\ pp.kind = "array"
           THEN /\ HR_RR' = rr.value
                /\ HR_PP' = pp.value
                /\ pc' = "ihr:102"
                /\ UNCHANGED ret
           ELSE /\ ret' = Outcome("ValueError", <<>>)
                /\ pc' = "done"
                /\ UNCHANGED <<HR_RR, HR_PP>>
    /\ UNCHANGED <<ppg_peaks, ecg_peaks, fs, window, ptt, loop_i, windows, window_stats,
                   ppg_peaks_arg, start_arg, end_arg, RR, RR_filt, PP, HR_RR_continous,
                   HR_PP_continous, window_2hz, len_ppg_at_2hz, notIhr>>

\* lines 102-107: the window starts, counted from the position of the last kept
\* PPG peak expressed in half-seconds.
IhrWindows ==
    /\ pc = "ihr:102"
    /\ window_2hz' = window * 2
    /\ len_ppg_at_2hz' = RMul(Rat(ppg_peaks[Len(ppg_peaks)], fs), R(2))
    /\ windows' = ArangeR(R(0), len_ppg_at_2hz', R(window_2hz'))
    /\ window_stats' = <<>>
    /\ loop_i' = 0
    /\ pc' = "ihr:109"
    /\ UNCHANGED <<ret, ppg_peaks, ecg_peaks, fs, window, ptt, ppg_peaks_arg, start_arg, end_arg,
                   RR, RR_filt, HR_RR, PP, HR_PP, HR_RR_continous, HR_PP_continous,
                   resample_2Hz, notIhr>>

\* lines 109-123: one window: the slices of both rates and the five agreements.
IhrRow ==
    /\ pc = "ihr:109"
    /\ loop_i < LoopCount(windows)
    /\ LET window_HR_RR == PySlice(HR_RR, loop_i * window_2hz, (loop_i + 1) * window_2hz)
           window_HR_PP == PySlice(HR_PP, loop_i * window_2hz, (loop_i + 1) * window_2hz)
       IN  window_stats' =
               Append(window_stats,
                      [Epoch |-> loop_i,
                       Agreement |-> [k \in Levels |-> Agreement(window_HR_PP, window_HR_RR, k)]])
    /\ loop_i' = loop_i + 1
    /\ UNCHANGED <<pc, ret, ppg_peaks, ecg_peaks, fs, window, ptt, windows, ihrLocals, notIhr>>

\* line 124: return window_stats
IhrReturn ==
    /\ pc = "ihr:109"
    /\ loop_i >= LoopCount(windows)
    /\ ret' = Outcome("table", window_stats)
    /\ pc' = "done"
    /\ UNCHANGED <<ppg_peaks, ecg_peaks, fs, window, ptt, loop_i, windows, window_stats,
                   ihrLocals, notIhr>>

IhrNext ==
    \/ IhrShift
    \/ IhrLimit
    \/ IhrReference
    \/ IhrTest
    \/ IhrFunctions
    \/ IhrResample
    \/ IhrWindows
    \/ IhrRow
    \/ IhrReturn

SpecIhr == IhrInit /\ [][IhrNext]_vars

\* ------------------------------------------------------------ claims: bsqi

\* The tolerance in samples, agw*fs, from the arguments as passed.
Tolerance == RMul(agw_arg, R(fs))

Returned == pc = "done" /\ ret.kind \in {"dict", "scalar"}

\* Test element j is accepted on reference element i: i is the element the query
\* reported for j, it is a nearest one, and it is strictly nearer than the tolerance.
AcceptedOn(i, j) ==
    /\ IndMatch[j] = i
    /\ Abs(testqrs[j] - refqrs[i]) = NearestDist(refqrs, testqrs[j])
    /\ RLt(R(Abs(testqrs[j] - refqrs[i])), Tolerance)

\* The reference elements accepted by at least one test element.
AcceptedRefs == {i \in 1..Len(refqrs) : \E j \in 1..Len(testqrs) : AcceptedOn(i, j)}

\* No test element is equally near to two reference elements.
NoTie ==
    \A j \in 1..Len(testqrs) :
        Cardinality({i \in 1..Len(refqrs) :
            Abs(testqrs[j] - refqrs[i]) = NearestDist(refqrs, testqrs[j])}) = 1

\* The reference elements that are a nearest element of some test element lying
\* strictly nearer than the tolerance (no reference to what the query reported).
NearRefs ==
    {i \in 1..Len(refqrs) : \E j \in 1..Len(testqrs) :
        /\ Abs(testqrs[j] - refqrs[i]) = NearestDist(refqrs, testqrs[j])
        /\ RLt(R(Abs(testqrs[j] - refqrs[i])), Tolerance)}

\* C1: for non-empty inputs, TP is the number of distinct reference elements that
\* are the nearest reference element of some test element strictly nearer than
\* agw*fs (several test elements on one reference element count once; where a test
\* element is equally near to two reference elements, the one the query reports
\* counts), FN = |ref| - TP and FP = |test| - TP.
C1_TruePositivesAreDistinctAcceptedReferences ==
    (pc = "done" /\ Len(refqrs) > 0 /\ Len(testqrs) > 0 /\ return_dict) =>
        /\ ret.kind = "dict"
        /\ ret.TP = Cardinality(AcceptedRefs)
        /\ NoTie => ret.TP = Cardinality(NearRefs)
        /\ ret.FN = Len(refqrs) - ret.TP
        /\ ret.FP = Len(testqrs) - ret.TP

\* Two test elements are accepted on one reference element and count once, and a
\* third lies at exactly the tolerance from it and is not accepted.
C1_Witness ==
    /\ pc = "done" /\ return_dict /\ ret.kind = "dict"
    /\ Len(refqrs) = 1 /\ ret.TP = 1
    /\ \E j, k \in 1..Len(testqrs) : j # k /\ AcceptedOn(1, j) /\ AcceptedOn(1, k)
    /\ \E j \in 1..Len(testqrs) : R(Abs(testqrs[j] - refqrs[1])) = Tolerance

AllZero(r) == r.TP = 0 /\ r.FN = 0 /\ r.FP = 0 /\ r.Se = R(0) /\ r.PPV = R(0) /\ r.F1 = R(0)

\* C2: with an empty reference or an empty test sequence the result is all zeros
\* (the dictionary, or the scalar 0), whatever the other sequence and the
\* tolerance, and the tree is neither built nor queried.
C2_EmptyInputGivesZerosWithoutTree ==
    (pc = "done" /\ (Len(refqrs) = 0 \/ Len(testqrs) = 0)) =>
        /\ ret.kind = (IF return_dict THEN "dict" ELSE "scalar")
        /\ AllZero(ret)
        /\ ~tree.built
        /\ tree.queries = 0

\* An empty test sequence against a non-empty reference, returned as a dictionary.
C2_Witness ==
    /\ pc = "done" /\ return_dict /\ ret.kind = "dict"
    /\ Len(refqrs) > 0 /\ Len(testqrs) = 0

Perfect(r) ==
    /\ r.kind = "dict" => r.TP = Len(refqrs) /\ r.FN = 0 /\ r.FP = 0 /\ r.Se = R(1) /\ r.PPV = R(1)
    /\ r.F1 = R(1)

\* C3 as stated: bsqi(ref, ref) is perfect for every tolerance >= 0.
C3_IdenticalInputsPerfectForAnyTolerance ==
    (pc = "done" /\ Len(refqrs) > 0 /\ testqrs = refqrs /\ RGe(Tolerance, R(0))) =>
        Returned /\ Perfect(ret)

\* C3 (amended): bsqi(ref, ref) is perfect (TP = len(ref), FN = FP = 0,
\* Se = PPV = F1 = 1) for every strictly positive tolerance.
C3_IdenticalInputsPerfectForPositiveTolerance ==
    (pc = "done" /\ Len(refqrs) > 0 /\ testqrs = refqrs /\ RGt(Tolerance, R(0))) =>
        Returned /\ Perfect(ret)

\* A sequence of several events matched against itself under a positive tolerance.
C3_Witness ==
    /\ pc = "done" /\ return_dict /\ ret.kind = "dict"
    /\ Len(refqrs) > 1 /\ testqrs = refqrs /\ RGt(Tolerance, R(0))
    /\ ret.TP = Len(refqrs)

InUnitInterval(r) == ~IsNaN(r) /\ RLe(R(0), r) /\ RLe(r, R(1))

\* C4: every call returns (no division by zero); the dictionary has
\* 0 <= TP <= min(|ref|, |test|), FN >= 0, FP >= 0 and Se, PPV, F1 defined and
\* in [0,1]; with no match between non-empty inputs Se = PPV = F1 = 0.
C4_CountsAndRatesWellDefined ==
    pc = "done" =>
        /\ Returned
        /\ InUnitInterval(ret.F1)
        /\ ret.kind = "dict" =>
            /\ 0 <= ret.TP /\ ret.TP <= Min(Len(refqrs), Len(testqrs))
            /\ ret.FN >= 0 /\ ret.FP >= 0
            /\ InUnitInterval(ret.Se) /\ InUnitInterval(ret.PPV)
            /\ (ret.TP = 0 /\ Len(refqrs) > 0 /\ Len(testqrs) > 0) =>
                   ret.Se = R(0) /\ ret.PPV = R(0) /\ ret.F1 = R(0)

\* Non-empty inputs with no match within the tolerance.
C4_Witness ==
    /\ pc = "done" /\ return_dict /\ ret.kind = "dict"
    /\ Len(refqrs) > 0 /\ Len(testqrs) > 0
    /\ ret.TP = 0 /\ ret.FN = Len(refqrs) /\ ret.FP = Len(testqrs)

\* --------------------------------------------------- claims: calculate_ptt

\* The PPG peaks strictly inside the open interval between ECG peaks k and k+1.
StrictlyInside(k) == {p \in Range(ppg_peaks) : ecg_peaks[k] < p /\ p < ecg_peaks[k + 1]}

\* The raw estimate of index k: the offset of the first such peak, if there is one.
RawSpec(k) ==
    IF k = Len(ecg_peaks) THEN Midpoint(max_ptt, min_ptt, fs)
    ELSE IF StrictlyInside(k) = {} THEN NaN
    ELSE R((CHOOSE p \in StrictlyInside(k) : \A q \in StrictlyInside(k) : p <= q) - ecg_peaks[k])

Resolved == {k \in 1..Len(ecg_peaks) : ~IsNaN(RawSpec(k))}

\* v lies on the straight line through (l, RawSpec(l)) and (r, RawSpec(r)) at k.
OnLine(v, k, l, r) ==
    RMul(RSub(v, RawSpec(l)), R(r - l)) = RMul(RSub(RawSpec(r), RawSpec(l)), R(k - l))

\* The value at k after the fill: the raw estimate where there is one, else the
\* linear interpolation over the index between the nearest resolved neighbours
\* (the first resolved value before the first resolved index).
Filled(v, k) ==
    IF k \in Resolved THEN v = RawSpec(k)
    ELSE LET r == CHOOSE q \in Resolved : q > k /\ \A o \in Resolved : o > k => q <= o
         IN  IF \E q \in Resolved : q < k
             THEN LET l == CHOOSE q \in Resolved : q < k /\ \A o \in Resolved : o < k => q >= o
                  IN  OnLine(v, k, l, r)
             ELSE v = RawSpec(r)

LowerBound == RMul(min_ptt, R(fs))

UpperBound == RMul(max_ptt, R(fs))

\* C10: for a non-empty ECG sequence and min_ptt < max_ptt, the raw estimate at
\* i < len-1 is (first PPG peak strictly inside (a_i, a_i+1)) - a_i or missing, the
\* missing ones are filled by linear interpolation over the index, the in-range
\* values whose mean replaces the others are never none, and after the replacement
\* every element is a number within [min_ptt*fs, max_ptt*fs].
C10_LagSeriesInRangeBeforeSmoothing ==
    /\ (pc = "ptt:30" /\ Len(ecg_peaks) > 0) =>
           \A k \in 1..Len(ecg_peaks) :
               ptt[k] = (IF k <= loop_i THEN RawSpec(k) ELSE midpoint)
    /\ pc = "ptt:47" =>
           /\ \A k \in 1..Len(ecg_peaks) : ~IsNaN(ptt[k]) /\ Filled(ptt[k], k)
           /\ \E k \in 1..Len(ecg_peaks) : RLt(LowerBound, ptt[k]) /\ RLt(ptt[k], UpperBound)
    /\ pc = "ptt:48" =>
           /\ Len(ptt) = Len(ecg_peaks)
           /\ \A k \in 1..Len(ecg_peaks) :
                  ~IsNaN(ptt[k]) /\ RLe(LowerBound, ptt[k]) /\ RLe(ptt[k], UpperBound)

\* After the replacement, with one estimate that was missing, one raw estimate
\* outside the range, and no raw estimate strictly inside it (the mean is that of the
\* last element alone).
C10_Witness ==
    /\ pc = "ptt:48"
    /\ \E k \in 1..(Len(ecg_peaks) - 1) : IsNaN(RawSpec(k))
    /\ \E k \in 1..(Len(ecg_peaks) - 1) :
           RGt(RawSpec(k), UpperBound) \/ RLt(RawSpec(k), LowerBound)
    /\ \A k \in 1..(Len(ecg_peaks) - 1) :
           ~(RLt(LowerBound, RawSpec(k)) /\ RLt(RawSpec(k), UpperBound))
    /\ \A k \in 1..Len(ecg_peaks) : ptt[k] = midpoint

\* -------------------------- claims: calculate_windowed_delayed_ppg_ecg_bsqi

\* C5: the table has one row per completed window, floor(len_ppg / W) rows with
\* W = fs*window (only a final partial window is dropped), in increasing order, row
\* i with Epoch = i.
C5_OneRowPerCompletedWindow ==
    (pc = "done" /\ ret.kind = "table") =>
        /\ Len(ret.value) = len_ppg \div (fs * window)
        /\ \A r \in 1..Len(ret.value) : ret.value[r].Epoch = r - 1

\* ------------------------------ claims: calculate_windowed_IHR_IPR_agreement

\* The slices of the two resampled rates that row r was computed over.
RowReference(r) == PySlice(HR_RR, r.Epoch * window_2hz, (r.Epoch + 1) * window_2hz)

RowTest(r) == PySlice(HR_PP, r.Epoch * window_2hz, (r.Epoch + 1) * window_2hz)

\* |test - reference| <= k, or the reference is not-a-number.
WithinTolerance(pp, rr, k) ==
    \/ IsNaN(rr)
    \/ RLe(RSub(pp, rr), R(k)) /\ RLe(RSub(rr, pp), R(k))

\* C6: in every row and for every tolerance level k in 1..5, the reported fraction
\* is the number of grid samples of the window with |test_rate - reference_rate| <= k
\* (both bounds inclusive) or with a not-a-number reference rate, divided by the
\* number of samples of the window.
C6_AgreementCountsBothBoundsInclusive ==
    pc \in {"ihr:109", "done"} =>
        \A n \in 1..Len(window_stats) : \A k \in Levels :
            LET r == window_stats[n]
            IN  r.Agreement[k] =
                    Rat(Cardinality({j \in 1..Len(RowReference(r)) :
                                        WithinTolerance(RowTest(r)[j], RowReference(r)[j], k)}),
                        Len(RowReference(r)))

\* Both arrays hold an event and the test events reach into the range of the
\* (shifted) reference events.
SupportsOverlap ==
    /\ Len(ppg_peaks_arg) > 0 /\ Len(ecg_peaks) > 0
    /\ ppg_peaks_arg[1] <= ecg_peaks[Len(ecg_peaks)]
    /\ ppg_peaks_arg[Len(ppg_peaks_arg)] >= ecg_peaks[1]

\* Every test event lies before the first or after the last (shifted) reference event.
SupportsDisjoint ==
    /\ Len(ppg_peaks_arg) > 0 /\ Len(ecg_peaks) > 0
    /\ \/ ppg_peaks_arg[Len(ppg_peaks_arg)] < ecg_peaks[1]
       \/ ppg_peaks_arg[1] > ecg_peaks[Len(ecg_peaks)]

\* C7: when the test events and the shifted reference events do not overlap at
\* all, the call completes without an error and returns a table with zero rows.
C7_DisjointSupportsGiveEmptyTable ==
    (pc = "done" /\ SupportsDisjoint) => (ret.kind = "table" /\ Len(ret.value) = 0)

\* C8: the table has floor(G / (window*2)) rows, G the number of grid samples; every
\* row is computed over exactly window*2 samples, and every agreement fraction is a
\* number in [0, 1].
C8_RowsPartitionTheGrid ==
    (pc = "done" /\ ret.kind = "table") =>
        /\ Len(ret.value) = Len(resample_2Hz) \div window_2hz
        /\ \A n \in 1..Len(ret.value) :
               /\ Len(RowReference(ret.value[n])) = window_2hz
               /\ \A k \in Levels :
                      /\ ~IsNaN(ret.value[n].Agreement[k])
                      /\ RLe(R(0), ret.value[n].Agreement[k])
                      /\ RLe(ret.value[n].Agreement[k], R(1))

\* C9: for overlapping supports the trimming keeps exactly the test events t with
\* first_reference <= t <= last_reference (the reference shifted by ptt).
C9_TrimKeepsExactlyTheEventsInRange ==
    (pc = "ihr:83" /\ SupportsOverlap) =>
        Range(ppg_peaks) =
            {t \in Range(ppg_peaks_arg) : ecg_peaks[1] <= t /\ t <= ecg_peaks[Len(ecg_peaks)]}

====
